---------------------------- MODULE Spec2Model ----------------------------
(***************************************************************************)
(* Model of mrdox's bitcode generator (MultiFileBuilder, SingleFileBuilder *)
(* in source/-bitcode/BitcodeGenerator.cpp) and of Expected<T> / Error     *)
(* (include/mrdox/Support/Error.hpp).                                      *)
(***************************************************************************)
EXTENDS Integers, Sequences, FiniteSets, TLC

\* ------------------------------------------------------------------ bounds
\* Largest number of symbols below the global namespace.
MaxSyms == 3
\* Number of threads of the thread pool the TaskGroup posts to.
NumWorkers == 2
\* Largest number of symbols of the corpus in the specification of two
\* calls of build and in the specification with fairness.
MaxSymsSmall == 2
\* Number of distinct values of T held by an Expected<T>.
MaxVal == 2
\* Longest std::vector<Error> handed to the aggregating constructor.
MaxList == 2
\* Longest string, longest array and largest integer magnitude held by a
\* dom::Value.
MaxStr == 2
MaxArr == 2
MaxInt == 2
\* Longest path handed to makeDirsy, and how often it is applied in a row.
MaxPath == 3
MaxCalls == 2

VARIABLES
    \* --- corpus and environment (fixed during a behaviour)
    nsyms,        \* number of symbols below the global namespace (ids 1..nsyms)
    kind,         \* kind[s]: "namespace", "record" or "function"
    parent,       \* parent[s]: the container owning s (0 is the global namespace)
    ioFault,      \* ioFault[s]: how the I/O for symbol s goes in this environment:
                  \* "unknown" until first attempted, then "none", "open" (the
                  \* target path cannot be opened) or "write" (the write fails)
    shortCount,   \* bytes a failing write appends before it fails (-1 until
                  \* a write has failed)
    mode,         \* "multi" (build) or "single" (buildOne)
    \* --- builder state
    pc,           \* "start", "traverse", "done"
    run,          \* 1 for the first call of build, 2 for the repeated call
    stack,        \* the traversal's call stack: frames [c, i] of Corpus::traverse
    visitOrder,   \* symbols operator() was invoked with, in order
    pending,      \* tasks posted to the TaskGroup and not yet started
    completed,    \* tasks that have run to completion
    running,      \* tasks a pool thread is executing (their file is open)
    fs,           \* fs[path]: bytes of the file at path, or NoFile
    console,      \* what reportError printed: set of <<operation, path>>
    taskErrors,   \* errors the TaskGroup has collected from its tasks
    stream,       \* bytes of buildOne's output stream
    streamBad,    \* badbit of buildOne's output stream
    nSerialized,  \* number of writeBitcode calls made by this call
    result,       \* the Error returned, or NoResult
    fsFirst,      \* the file system when the first build returned
    resultFirst,  \* the Error the first build returned
    visitOrderFirst, \* the symbols build posted tasks for, in order, kept
                  \* when buildOne is then called on the same corpus
    \* --- Expected<T> objects
    exp,          \* exp[n]: the Expected<T> object named n: its discriminant
                  \* has_error_, which union members are constructed (vLive,
                  \* eLive) and what they hold (v, e)
    ub,           \* a union member that is not live was read, assigned or
                  \* destroyed (undefined behaviour has occurred)
    ret,          \* what the last call on an Expected or Error did: the
                  \* operation, its object, the object before the call, the
                  \* outcome and the value or Error handed to the caller
    consumed,     \* objects whose value release() has moved out and which
                  \* have not been constructed, assigned or swapped since
    xfer,         \* the last move or swap between two Expected objects: the
                  \* operation, target and source, both objects before it,
                  \* and the union members of the target it destroyed
    hollow,       \* objects whose payload has been moved out, or was
                  \* transferred from such an object
    \* --- Error objects
    errObj,       \* errObj[n]: the Error named n (message_, reason_, loc_)
    holdsFailure, \* holdsFailure[n]: the Error named n was made from, or
                  \* received the content of, an Error constructed with a text
    errList,      \* the std::vector<Error> being collected
    eret,         \* what the last call on an Error did
    \* --- dom::Value
    val,          \* the dom::Value under inspection
    truthy,       \* what isTruthy() returned for it ("none" before the call)
    life,         \* life[n]: whether the dom::Value named n is constructed,
                  \* which non-trivial union members of it are constructed,
                  \* and which members its destructor destroyed
    domFault,     \* "none", or what went wrong with a payload's lifetime
    \* --- makeDirsy
    dirsy         \* the path style in force and the path before and after
                  \* each call of makeDirsy on it

buildVars ==
    << nsyms, kind, parent, ioFault, shortCount, mode, pc, run, stack,
       visitOrder, pending, completed, running, fs, console,
       taskErrors, stream, streamBad, nSerialized, result, fsFirst,
       resultFirst, visitOrderFirst >>

expVars ==
    << exp, ub, ret, consumed, xfer, hollow >>

errVars ==
    << errObj, holdsFailure, errList, eret >>

domVars ==
    << val, truthy, life, domFault >>

pathVars ==
    << dirsy >>

vars ==
    << buildVars, expVars, errVars, domVars, pathVars >>

\* A path at which there is no file.
NoFile ==
    [exists |-> FALSE, bytes |-> << >>]

\* The call has not returned.
NoResult ==
    [message |-> << >>, none |-> TRUE]

Kinds == {"namespace", "record", "function"}

\* ------------------------------------------------------------------ Error
\* An Error is its message (a sequence of fragments); reason and location
\* take no part in failed() or equality.
Success ==
    [message |-> << >>]

failed(e) ==
    e.message # << >>

RECURSIVE JoinMessages(_)
JoinMessages(errors) ==
    IF errors = << >> THEN << >>
    ELSE LET rest == JoinMessages(Tail(errors))
             m == Head(errors).message
         IN  IF m = << >> THEN rest
             ELSE IF rest = << >> THEN m
             ELSE m \o << "\n" >> \o rest

\* Error(std::vector<Error> const&)
ErrorFromList(errors) ==
    [message |-> JoinMessages(errors)]

\* ------------------------------------------------------------------ corpus
Symbols ==
    1..nsyms

RECURSIVE SortedSeq(_)
SortedSeq(S) ==
    IF S = {} THEN << >>
    ELSE LET m == CHOOSE x \in S : \A y \in S : x <= y
         IN  << m >> \o SortedSeq(S \ {m})

\* The ordered member identifiers of container c (corpus order).
Members(c) ==
    SortedSeq({s \in Symbols : parent[s] = c})

\* T::isRecord()
isRecord(s) ==
    kind[s] = "record"

IsContainer(c) ==
    c = 0 \/ kind[c] \in {"namespace", "record"}

\* writeBitcode(I): the symbol's binary encoding (opaque bytes determined
\* by the symbol).
writeBitcode(s) ==
    << s, kind[s] >>

\* SafeNames::get(id): a name unique to the symbol.
SafeName(s) ==
    << "sym", s >>

outputPath ==
    << "out" >>

\* Variant: the safe name is left out of the path.
FilePathNoName(s) ==
    outputPath \o << "/" >> \o << ".bc" >>

\* filePath(outputPath_); path::append(filePath, name); filePath.append(".bc")
FilePath(s) ==
    outputPath \o << "/" >> \o SafeName(s) \o << ".bc" >>

AllPaths ==
    {FilePath(s) : s \in 1..MaxSyms}

\* ------------------------------------------------------------- traversal
\* Corpus::traverse returns to its caller once the members are exhausted.
RECURSIVE PopFinished(_)
PopFinished(stk) ==
    IF stk # << >> /\ Head(stk).i > Len(Members(Head(stk).c))
    THEN PopFinished(Tail(stk))
    ELSE stk

\* Corpus::traverse(I, f): f is invoked with each member of I, in order.
TraversePush(stk, c) ==
    PopFinished(<< [c |-> c, i |-> 1] >> \o stk)

\* The member the innermost traverse hands to operator() next.
NextMember(stk) ==
    Members(Head(stk).c)[Head(stk).i]

Advance(stk) ==
    << [Head(stk) EXCEPT !.i = @ + 1] >> \o Tail(stk)

\* if constexpr(T::isRecord()) corpus_.traverse(I, *this);
Recurse(stk, s) ==
    IF isRecord(s) THEN TraversePush(stk, s) ELSE PopFinished(stk)

\* ------------------------------------------------------------- streams
Prefix(bytes, k) ==
    SubSeq(bytes, 1, k)

\* Variant: the file is opened for appending, its content kept.
OpenAppend(content) ==
    [exists |-> TRUE, bytes |-> content.bytes]

\* raw_fd_ostream(filePath, ec, fs::CD_CreateAlways): the file is created,
\* or truncated when it exists.
CreateAlways(content) ==
    [exists |-> TRUE, bytes |-> << >>]

\* raw_fd_ostream::write on an open file: the bytes are appended; a failing
\* write appends only the first k of them.
FileWrite(content, bytes, fault, k) ==
    [content EXCEPT !.bytes = IF fault THEN @ \o Prefix(bytes, k) ELSE @ \o bytes]

\* The environment: the outcomes the I/O for symbol s can have. An outcome
\* seen once stays (the directory and its permissions do not change).
Outcomes(s, choices) ==
    IF ioFault[s] = "unknown" THEN choices ELSE {ioFault[s]}

ShortCounts(bytes) ==
    IF shortCount = -1 THEN 0..(Len(bytes) - 1) ELSE {shortCount}

\* Variant: the bytes are put in front of what the stream holds.
StreamPrepend(os, bytes) ==
    bytes \o os

\* os_.write(bc.data.data(), bc.data.size()) on the shared stream.
StreamAppend(os, bytes) ==
    os \o bytes

\* ------------------------------------------------------------- TaskGroup
\* TaskGroup::wait() returns once every task posted has completed.
AllTasksCompleted ==
    /\ pending = {}
    /\ running = {}

\* ------------------------------------------------------------- actions
\* MultiFileBuilder::build / SingleFileBuilder::build: the call of
\* corpus_.traverse(corpus_.globalNamespace(), *this).
BuildStart ==
    /\ pc = "start"
    /\ pc' = "traverse"
    /\ stack' = TraversePush(<< >>, 0)
    /\ UNCHANGED << nsyms, kind, parent, ioFault, shortCount, mode, run,
                    visitOrder, pending, completed, running, fs, console,
                    taskErrors, stream, streamBad, nSerialized, result,
                    fsFirst, resultFirst >>
    /\ UNCHANGED << visitOrderFirst, expVars, errVars, domVars, pathVars >>

\* Variant: the traversal posts a record's task after its members' tasks.
MultiVisitMembersFirst ==
    /\ mode = "multi"
    /\ pc = "traverse"
    /\ stack # << >>
    /\ LET s == NextMember(stack)
       IN  /\ pending' = pending \cup {s}
           /\ visitOrder' = IF parent[s] = 0 THEN Append(visitOrder, s)
                            ELSE << s >> \o visitOrder
           /\ stack' = Recurse(Advance(stack), s)
    /\ UNCHANGED << nsyms, kind, parent, ioFault, shortCount, mode, pc, run,
                    completed, running, fs, console, taskErrors, stream,
                    streamBad, nSerialized, result, fsFirst, resultFirst >>
    /\ UNCHANGED << visitOrderFirst, expVars, errVars, domVars, pathVars >>

\* MultiFileBuilder::operator()(I): post the task of I, then traverse I's
\* members when I is a record.
MultiVisit ==
    /\ mode = "multi"
    /\ pc = "traverse"
    /\ stack # << >>
    /\ LET s == NextMember(stack)
       IN  /\ pending' = pending \cup {s}
           /\ visitOrder' = Append(visitOrder, s)
           /\ stack' = Recurse(Advance(stack), s)
    /\ UNCHANGED << nsyms, kind, parent, ioFault, shortCount, mode, pc, run,
                    completed, running, fs, console, taskErrors, stream,
                    streamBad, nSerialized, result, fsFirst, resultFirst >>
    /\ UNCHANGED << visitOrderFirst, expVars, errVars, domVars, pathVars >>

\* raw_fd_ostream::error() of the task's stream after a successful open:
\* set once a write has failed.
OsError(fault, written) ==
    written /\ fault = "write"

\* Variant: an open failure drops the tasks still waiting in the group.
TaskOpenDropsSiblings(s) ==
    /\ s \in pending
    /\ Cardinality(running) < NumWorkers
    /\ \E f \in Outcomes(s, {"none", "open", "write"}) :
        LET filePath == FilePath(s)
        IN  /\ ioFault' = [ioFault EXCEPT ![s] = f]
            /\ IF f = "open"
               THEN /\ console' = console \cup {<< "open", filePath >>}
                    /\ completed' = completed \cup pending
                    /\ pending' = {}
                    /\ UNCHANGED << running, fs >>
               ELSE /\ fs' = [fs EXCEPT ![filePath] = CreateAlways(@)]
                    /\ running' = running \cup {s}
                    /\ pending' = pending \ {s}
                    /\ UNCHANGED << console, completed >>
    /\ UNCHANGED << nsyms, kind, parent, shortCount, mode, pc, run,
                    stack, visitOrder, taskErrors, stream, streamBad,
                    nSerialized, result, fsFirst, resultFirst >>
    /\ UNCHANGED << visitOrderFirst, expVars, errVars, domVars, pathVars >>

\* The first half of the task's lambda for symbol s, run by a pool thread:
\* compute the path and open the file; an open failure is reported and
\* ends the task.
TaskOpen(s) ==
    /\ s \in pending
    /\ Cardinality(running) < NumWorkers
    /\ pending' = pending \ {s}
    /\ \E f \in Outcomes(s, {"none", "open", "write"}) :
        LET filePath == FilePath(s)
        IN  /\ ioFault' = [ioFault EXCEPT ![s] = f]
            /\ IF f = "open"
               THEN /\ console' = console \cup {<< "open", filePath >>}
                    /\ completed' = completed \cup {s}
                    /\ UNCHANGED << running, fs >>
               ELSE /\ fs' = [fs EXCEPT ![filePath] = CreateAlways(@)]
                    /\ running' = running \cup {s}
                    /\ UNCHANGED << console, completed >>
    /\ UNCHANGED << nsyms, kind, parent, shortCount, mode, pc, run,
                    stack, visitOrder, taskErrors, stream, streamBad,
                    nSerialized, result, fsFirst, resultFirst >>
    /\ UNCHANGED << visitOrderFirst, expVars, errVars, domVars, pathVars >>

\* Variant: a task whose write failed posts itself again.
TaskWriteRetries(s) ==
    /\ s \in running
    /\ LET filePath == FilePath(s)
           bc == writeBitcode(s)
           fault == ioFault[s]
       IN  /\ \E k \in ShortCounts(bc) :
                /\ fs' = [fs EXCEPT ![filePath] =
                             FileWrite(@, bc, fault = "write", k)]
                /\ shortCount' = IF fault = "write" THEN k ELSE shortCount
           /\ IF fault = "write"
              THEN pending' = pending \cup {s} /\ UNCHANGED completed
              ELSE completed' = completed \cup {s} /\ UNCHANGED pending
    /\ running' = running \ {s}
    /\ UNCHANGED << nsyms, kind, parent, ioFault, mode, pc, run,
                    stack, visitOrder, console, taskErrors, stream, streamBad,
                    nSerialized, result, fsFirst, resultFirst >>
    /\ UNCHANGED << visitOrderFirst, expVars, errVars, domVars, pathVars >>

\* The second half of the lambda: encode, test os.error(), then write.
TaskWrite(s) ==
    /\ s \in running
    /\ LET filePath == FilePath(s)
           bc == writeBitcode(s)
           fault == ioFault[s]
       IN  IF OsError(fault, FALSE)
           THEN /\ console' = console \cup {<< "write", filePath >>}
                /\ UNCHANGED << fs, shortCount >>
           ELSE /\ \E k \in ShortCounts(bc) :
                    /\ fs' = [fs EXCEPT ![filePath] =
                                 FileWrite(@, bc, fault = "write", k)]
                    /\ shortCount' = IF fault = "write" THEN k ELSE shortCount
                /\ UNCHANGED console
    /\ completed' = completed \cup {s}
    /\ running' = running \ {s}
    /\ UNCHANGED << nsyms, kind, parent, ioFault, mode, pc, run,
                    stack, visitOrder, pending, taskErrors, stream, streamBad,
                    nSerialized, result, fsFirst, resultFirst >>
    /\ UNCHANGED << visitOrderFirst, expVars, errVars, domVars, pathVars >>

\* Variant: build returns without calling taskGroup_.wait().
MultiBuildNoWait ==
    /\ mode = "multi"
    /\ pc = "traverse"
    /\ stack = << >>
    /\ result' = Success
    /\ pc' = "done"
    /\ fsFirst' = IF run = 1 THEN fs ELSE fsFirst
    /\ resultFirst' = IF run = 1 THEN result' ELSE resultFirst
    /\ UNCHANGED << nsyms, kind, parent, ioFault, shortCount, mode, run,
                    stack, visitOrder, pending, completed, running, fs,
                    console, taskErrors, stream, streamBad, nSerialized >>
    /\ UNCHANGED << visitOrderFirst, expVars, errVars, domVars, pathVars >>

\* MultiFileBuilder::build after the traversal: wait for the tasks, then
\* return Error(errors) when errors were collected, else success.
MultiBuildWait ==
    /\ mode = "multi"
    /\ pc = "traverse"
    /\ stack = << >>
    /\ AllTasksCompleted
    /\ LET errors == taskErrors
       IN  result' = IF errors # << >> THEN ErrorFromList(errors) ELSE Success
    /\ pc' = "done"
    /\ fsFirst' = IF run = 1 THEN fs ELSE fsFirst
    /\ resultFirst' = IF run = 1 THEN result' ELSE resultFirst
    /\ UNCHANGED << nsyms, kind, parent, ioFault, shortCount, mode, run,
                    stack, visitOrder, pending, completed, running, fs,
                    console, taskErrors, stream, streamBad, nSerialized >>
    /\ UNCHANGED << visitOrderFirst, expVars, errVars, domVars, pathVars >>

\* BitcodeGenerator::build called again with the same corpus and directory:
\* a new MultiFileBuilder, the files of the first call still in place.
Rebuild ==
    /\ mode = "multi"
    /\ pc = "done"
    /\ run = 1
    /\ run' = 2
    /\ pc' = "start"
    /\ visitOrder' = << >>
    /\ pending' = {}
    /\ completed' = {}
    /\ console' = {}
    /\ result' = NoResult
    /\ UNCHANGED << nsyms, kind, parent, ioFault, shortCount, mode, stack,
                    running, fs, taskErrors, stream, streamBad,
                    nSerialized, fsFirst, resultFirst >>
    /\ UNCHANGED << visitOrderFirst, expVars, errVars, domVars, pathVars >>

\* BitcodeGenerator::buildOne called on the corpus build was called on: a
\* new SingleFileBuilder writing to a stream of its own.
BuildOneAfterBuild ==
    /\ mode = "multi"
    /\ pc = "done"
    /\ run = 1
    /\ run' = 2
    /\ mode' = "single"
    /\ pc' = "start"
    /\ visitOrderFirst' = visitOrder
    /\ visitOrder' = << >>
    /\ pending' = {}
    /\ completed' = {}
    /\ result' = NoResult
    /\ ioFault' = [s \in 1..nsyms |-> "unknown"]
    /\ shortCount' = -1
    /\ UNCHANGED << nsyms, kind, parent, stack, running, fs, console,
                    taskErrors, stream, streamBad, nSerialized, fsFirst,
                    resultFirst >>
    /\ UNCHANGED << expVars, errVars, domVars, pathVars >>

\* Variant: a single-stream visit that does not descend into records.
SingleVisitFlat ==
    /\ mode = "single"
    /\ pc = "traverse"
    /\ stack # << >>
    /\ LET s == NextMember(stack)
           bc == writeBitcode(s)
       IN  /\ nSerialized' = nSerialized + 1
           /\ visitOrder' = Append(visitOrder, s)
           /\ stream' = StreamAppend(stream, bc)
           /\ stack' = PopFinished(Advance(stack))
    /\ UNCHANGED << nsyms, kind, parent, mode, pc, run, ioFault, shortCount,
                    streamBad, pending, completed, running, fs, console,
                    taskErrors, result, fsFirst, resultFirst >>
    /\ UNCHANGED << visitOrderFirst, expVars, errVars, domVars, pathVars >>

\* SingleFileBuilder::operator()(I): encode I, write it to the stream, then
\* traverse I's members when I is a record. A std::ostream whose badbit is
\* set ignores further writes.
SingleVisit ==
    /\ mode = "single"
    /\ pc = "traverse"
    /\ stack # << >>
    /\ LET s == NextMember(stack)
           bc == writeBitcode(s)
       IN  /\ nSerialized' = nSerialized + 1
           /\ visitOrder' = Append(visitOrder, s)
           /\ IF streamBad
              THEN UNCHANGED << stream, streamBad, ioFault, shortCount >>
              ELSE \E f \in Outcomes(s, {"none", "write"}) :
                   \E k \in ShortCounts(bc) :
                      /\ ioFault' = [ioFault EXCEPT ![s] = f]
                      /\ stream' = IF f = "write"
                                   THEN StreamAppend(stream, Prefix(bc, k))
                                   ELSE StreamAppend(stream, bc)
                      /\ streamBad' = (f = "write")
                      /\ shortCount' = IF f = "write" THEN k ELSE shortCount
           /\ stack' = Recurse(Advance(stack), s)
    /\ UNCHANGED << nsyms, kind, parent, mode, pc, run,
                    pending, completed, running, fs, console, taskErrors,
                    result, fsFirst, resultFirst >>
    /\ UNCHANGED << visitOrderFirst, expVars, errVars, domVars, pathVars >>

\* SingleFileBuilder::build after the traversal: return Error::success().
SingleBuildReturn ==
    /\ mode = "single"
    /\ pc = "traverse"
    /\ stack = << >>
    /\ result' = Success
    /\ pc' = "done"
    /\ UNCHANGED << nsyms, kind, parent, ioFault, shortCount, mode, run,
                    stack, visitOrder, pending, completed, running, fs,
                    console, taskErrors, stream, streamBad, nSerialized,
                    fsFirst, resultFirst >>
    /\ UNCHANGED << visitOrderFirst, expVars, errVars, domVars, pathVars >>

\* ------------------------------------------------------------- Expected<T>
Names == {"a", "b", "c"}

\* Values of T; 0 is the state a T is left in when moved from.
Values == 1..MaxVal

\* Failed Errors (a non-empty message).
Errors == {[message |-> << "e1" >>], [message |-> << "e2" >>]}

\* What reading a union member that is not live can yield.
AnyError == Errors \cup {Success}
AnyValue == 0..MaxVal

\* An Expected that is not constructed (or has been destroyed).
NoObject ==
    [alive |-> FALSE, has_error_ |-> FALSE, vLive |-> FALSE, eLive |-> FALSE,
     v |-> 0, e |-> Success]

\* Expected<T>::has_error()
has_error(o) ==
    o.has_error_

\* Expected<T>::has_value()
has_value(o) ==
    ~o.has_error_

\* Expected<T>::operator bool()
OperatorBool(o) ==
    ~o.has_error_

\* Expected(U&& u): has_error_(false), construct_at(&v_, u)
FromValue(u) ==
    [alive |-> TRUE, has_error_ |-> FALSE, vLive |-> TRUE, eLive |-> FALSE,
     v |-> u, e |-> Success]

\* Expected(Error err): has_error_(true), construct_at(&e_, move(err))
FromError(err) ==
    [alive |-> TRUE, has_error_ |-> TRUE, vLive |-> FALSE, eLive |-> TRUE,
     v |-> 0, e |-> err]

\* Expected(Expected&& other): the discriminant is copied and the member it
\* names is move-constructed from other's; g stands for what a member of
\* other that is not live yields. The result is << new object, other, ub >>.
MoveCtor(other, g) ==
    IF other.has_error_
    THEN << [alive |-> TRUE, has_error_ |-> TRUE, vLive |-> FALSE,
             eLive |-> TRUE, v |-> 0,
             e |-> IF other.eLive THEN other.e ELSE g.e],
            IF other.eLive THEN [other EXCEPT !.e = Success] ELSE other,
            ~other.eLive >>
    ELSE << [alive |-> TRUE, has_error_ |-> FALSE, vLive |-> TRUE,
             eLive |-> FALSE, e |-> Success,
             v |-> IF other.vLive THEN other.v ELSE g.v],
            IF other.vLive THEN [other EXCEPT !.v = 0] ELSE other,
            ~other.vLive >>

\* ~Expected(): destroy_at(&e_) if has_error_, else destroy_at(&v_). It is
\* undefined when the member the discriminant names is not live.
DtorUB(o) ==
    IF o.has_error_ THEN ~o.eLive ELSE ~o.vLive

\* `rhs.has_error` in swap names the member function has_error and neither
\* calls it nor reads has_error_: the condition does not depend on rhs. (A
\* compiler that accepts the expression takes the function designator, which
\* is not null.)
RhsHasError(rhs) ==
    TRUE

\* Expected<T>::swap(Expected& rhs), this = l. The result is << l, rhs, ub >>.
SwapObjects(l, rhs, g) ==
    IF l.has_error_ /\ RhsHasError(rhs)
    THEN \* swap(e_, rhs.e_)
         << [l EXCEPT !.e = IF rhs.eLive THEN rhs.e ELSE g.e],
            IF rhs.eLive THEN [rhs EXCEPT !.e = l.e] ELSE rhs,
            ~l.eLive \/ ~rhs.eLive >>
    ELSE IF l.has_error_
    THEN \* err(move(e_)); destroy e_; construct v_ from rhs.v_;
         \* destroy rhs.v_; construct rhs.e_ from err; swap discriminants
         << [l EXCEPT !.has_error_ = rhs.has_error_, !.eLive = FALSE,
                      !.e = Success, !.vLive = TRUE,
                      !.v = IF rhs.vLive THEN rhs.v ELSE g.v],
            [rhs EXCEPT !.has_error_ = l.has_error_, !.vLive = FALSE,
                        !.v = 0, !.eLive = TRUE,
                        !.e = IF l.eLive THEN l.e ELSE g.e],
            ~l.eLive \/ ~rhs.vLive \/ l.vLive \/ rhs.eLive >>
    ELSE IF ~RhsHasError(rhs)
    THEN \* swap(v_, rhs.v_)
         << [l EXCEPT !.v = IF rhs.vLive THEN rhs.v ELSE g.v],
            IF rhs.vLive THEN [rhs EXCEPT !.v = l.v] ELSE rhs,
            ~l.vLive \/ ~rhs.vLive >>
    ELSE \* err(move(rhs.e_)); destroy rhs.e_; construct rhs.v_ from v_;
         \* destroy v_; construct e_ from err; swap discriminants
         << [l EXCEPT !.has_error_ = rhs.has_error_, !.vLive = FALSE,
                      !.v = 0, !.eLive = TRUE,
                      !.e = IF rhs.eLive THEN rhs.e ELSE g.e],
            [rhs EXCEPT !.has_error_ = l.has_error_, !.eLive = FALSE,
                        !.e = Success, !.vLive = TRUE,
                        !.v = IF l.vLive THEN l.v ELSE g.v],
            ~rhs.eLive \/ ~l.vLive \/ rhs.vLive \/ l.eLive >>

\* What a read of a union member that is not live may yield.
Garbage ==
    [e : AnyError, v : AnyValue]

\* The reads an operation makes: arbitrary when it reads a member that is
\* not live, immaterial otherwise.
GarbageIf(readsDead) ==
    IF readsDead THEN Garbage ELSE {[e |-> Success, v |-> 0]}

\* No call has returned or raised yet.
NoCall ==
    [op |-> "none", obj |-> "none", before |-> NoObject, outcome |-> "none",
     v |-> 0, e |-> Success]

\* No move or swap has been made.
NoTransfer ==
    [op |-> "none", dst |-> "none", src |-> "none", dstBefore |-> NoObject,
     srcBefore |-> NoObject, destroyed |-> {}]

\* The union members of o that are constructed.
LiveMembers(o) ==
    {m \in {"v_", "e_"} : IF m = "v_" THEN o.vLive ELSE o.eLive}

\* The union member ~Expected() destroys: e_ if has_error_, else v_.
DtorMembers(o) ==
    IF o.has_error_ THEN {"e_"} ELSE {"v_"}

\* hollow after the payload of y has been transferred to x.
HollowAfterMove(x, y) ==
    (IF y \in hollow THEN hollow \cup {x} ELSE hollow \ {x}) \cup {y}

\* The program is still executing: no undefined behaviour has occurred and
\* std::terminate has not been called.
Running ==
    ~ub /\ ret.outcome # "terminated"

\* Error::Throw: throw Exception(*this), with the precondition failed().
\* Without the precondition the call either throws all the same or stops at
\* the failed assertion.
ThrowOutcomes(err) ==
    IF failed(err) THEN {"thrown"} ELSE {"thrown", "aborted"}

\* Expected<T> x(u)
ConstructValue(x, u) ==
    /\ Running
    /\ ~exp[x].alive
    /\ exp' = [exp EXCEPT ![x] = FromValue(u)]
    /\ ret' = NoCall
    /\ consumed' = consumed \ {x}
    /\ xfer' = NoTransfer
    /\ hollow' = hollow \ {x}
    /\ UNCHANGED << ub, buildVars, errVars, domVars, pathVars >>

\* Expected<T> x(err); MRDOX_ASSERT(err.failed())
ConstructError(x, err) ==
    /\ Running
    /\ ~exp[x].alive
    /\ failed(err)
    /\ exp' = [exp EXCEPT ![x] = FromError(err)]
    /\ ret' = NoCall
    /\ consumed' = consumed \ {x}
    /\ xfer' = NoTransfer
    /\ hollow' = hollow \ {x}
    /\ UNCHANGED << ub, buildVars, errVars, domVars, pathVars >>

\* Expected<T> x(std::move(y))
MoveConstruct(x, y) ==
    /\ Running
    /\ x # y
    /\ ~exp[x].alive
    /\ exp[y].alive
    /\ \E g \in GarbageIf(DtorUB(exp[y])) :
        LET r == MoveCtor(exp[y], g)
        IN  /\ exp' = [exp EXCEPT ![x] = r[1], ![y] = r[2]]
            /\ ub' = r[3]
    /\ ret' = NoCall
    /\ consumed' = consumed \ {x}
    /\ xfer' = [op |-> "moveConstruct", dst |-> x, src |-> y,
                dstBefore |-> exp[x], srcBefore |-> exp[y],
                destroyed |-> {}]
    /\ hollow' = HollowAfterMove(x, y)
    /\ UNCHANGED << buildVars, errVars, domVars, pathVars >>

\* Variant: a move assignment without the test for self-assignment.
MoveAssignNoSelfTest(x, y) ==
    /\ Running
    /\ exp[x].alive
    /\ exp[y].alive
    /\ LET dead == [exp[y] EXCEPT !.vLive = FALSE, !.eLive = FALSE]
           from == IF x = y THEN dead ELSE exp[y]
       IN  \E g \in GarbageIf(DtorUB(from)) :
              LET r == MoveCtor(from, g)
              IN  /\ exp' = [exp EXCEPT ![y] = r[2], ![x] = r[1]]
                  /\ ub' = (DtorUB(exp[x]) \/ r[3])
    /\ ret' = NoCall
    /\ consumed' = consumed \ {x}
    /\ xfer' = [op |-> "moveAssign", dst |-> x, src |-> y,
                dstBefore |-> exp[x], srcBefore |-> exp[y],
                destroyed |-> DtorMembers(exp[x])]
    /\ hollow' = HollowAfterMove(x, y)
    /\ UNCHANGED << buildVars, errVars, domVars, pathVars >>

\* x = std::move(y): if(this != &other) { destroy_at(this);
\* construct_at(this, std::move(other)); }
MoveAssign(x, y) ==
    /\ Running
    /\ exp[x].alive
    /\ exp[y].alive
    /\ IF x = y
       THEN UNCHANGED << exp, ub >>
       ELSE \E g \in GarbageIf(DtorUB(exp[y])) :
              LET r == MoveCtor(exp[y], g)
              IN  /\ exp' = [exp EXCEPT ![x] = r[1], ![y] = r[2]]
                  /\ ub' = (DtorUB(exp[x]) \/ r[3])
    /\ ret' = NoCall
    /\ consumed' = consumed \ {x}
    /\ xfer' = [op |-> "moveAssign", dst |-> x, src |-> y,
                dstBefore |-> exp[x], srcBefore |-> exp[y],
                destroyed |-> IF x = y THEN {} ELSE DtorMembers(exp[x])]
    /\ hollow' = IF x = y THEN hollow ELSE HollowAfterMove(x, y)
    /\ UNCHANGED << buildVars, errVars, domVars, pathVars >>

\* x = std::move(y) for an Expected<U> y: Expected temp(std::move(other));
\* temp.swap(*this); return *this; and temp is destroyed.
ConvertAssign(x, y) ==
    /\ Running
    /\ x # y
    /\ exp[x].alive
    /\ exp[y].alive
    /\ \E g1 \in GarbageIf(DtorUB(exp[y])) :
       \E g2 \in GarbageIf(SwapObjects(MoveCtor(exp[y], g1)[1], exp[x], g1)[3]) :
        LET m == MoveCtor(exp[y], g1)
            s == SwapObjects(m[1], exp[x], g2)
        IN  /\ exp' = [exp EXCEPT ![x] = s[2], ![y] = m[2]]
            /\ ub' = (m[3] \/ s[3] \/ DtorUB(s[1]))
    /\ ret' = NoCall
    /\ consumed' = consumed \ {x}
    /\ xfer' = [op |-> "convertAssign", dst |-> x, src |-> y,
                dstBefore |-> exp[x], srcBefore |-> exp[y],
                destroyed |-> DtorMembers(exp[x])]
    /\ hollow' = HollowAfterMove(x, y)
    /\ UNCHANGED << buildVars, errVars, domVars, pathVars >>

\* x.swap(y)
Swap(x, y) ==
    /\ Running
    /\ x # y
    /\ exp[x].alive
    /\ exp[y].alive
    /\ \E g \in GarbageIf(SwapObjects(exp[x], exp[y], [e |-> Success, v |-> 0])[3]) :
        LET s == SwapObjects(exp[x], exp[y], g)
        IN  /\ exp' = [exp EXCEPT ![x] = s[1], ![y] = s[2]]
            /\ ub' = s[3]
    /\ ret' = NoCall
    /\ consumed' = consumed \ {x, y}
    /\ xfer' = [op |-> "swap", dst |-> x, src |-> y,
                dstBefore |-> exp[x], srcBefore |-> exp[y],
                destroyed |-> {}]
    /\ hollow' = (hollow \ {x, y})
                    \cup (IF y \in hollow THEN {x} ELSE {})
                    \cup (IF x \in hollow THEN {y} ELSE {})
    /\ UNCHANGED << buildVars, errVars, domVars, pathVars >>

\* x goes out of scope: ~Expected()
Destroy(x) ==
    /\ Running
    /\ exp[x].alive
    /\ exp' = [exp EXCEPT ![x] = NoObject]
    /\ ub' = DtorUB(exp[x])
    /\ ret' = NoCall
    /\ consumed' = consumed \ {x}
    /\ xfer' = NoTransfer
    /\ hollow' = hollow \ {x}
    /\ UNCHANGED << buildVars, errVars, domVars, pathVars >>

\* value() that raises a default Error instead of the stored one.
ValueThrowsDefault(x) ==
    /\ Running
    /\ exp[x].alive
    /\ IF has_value(exp[x])
       THEN ret' = [op |-> "value", obj |-> x, before |-> exp[x],
                    outcome |-> "returned", e |-> Success, v |-> exp[x].v]
       ELSE ret' = [op |-> "value", obj |-> x, before |-> exp[x],
                    outcome |-> "thrown", v |-> 0, e |-> Success]
    /\ xfer' = NoTransfer
    /\ UNCHANGED << exp, ub, consumed, hollow, buildVars, errVars, domVars, pathVars >>

\* x.value(): if(has_value()) return v_; e_.Throw();
Value(x) ==
    /\ Running
    /\ exp[x].alive
    /\ IF has_value(exp[x])
       THEN /\ \E g \in GarbageIf(~exp[x].vLive) :
                ret' = [op |-> "value", obj |-> x, before |-> exp[x],
                        outcome |-> "returned", e |-> Success,
                        v |-> IF exp[x].vLive THEN exp[x].v ELSE g.v]
            /\ ub' = ~exp[x].vLive
       ELSE /\ \E out \in ThrowOutcomes(exp[x].e) :
                ret' = [op |-> "value", obj |-> x, before |-> exp[x],
                        outcome |-> out, v |-> 0, e |-> exp[x].e]
            /\ ub' = ~exp[x].eLive
    /\ xfer' = NoTransfer
    /\ UNCHANGED << exp, consumed, hollow, buildVars, errVars, domVars, pathVars >>

\* x.release() noexcept: return std::move(value()); an exception leaving
\* value() meets noexcept and std::terminate is called.
Release(x) ==
    /\ Running
    /\ exp[x].alive
    /\ IF has_value(exp[x])
       THEN /\ \E g \in GarbageIf(~exp[x].vLive) :
                ret' = [op |-> "release", obj |-> x, before |-> exp[x],
                        outcome |-> "returned", e |-> Success,
                        v |-> IF exp[x].vLive THEN exp[x].v ELSE g.v]
            /\ exp' = [exp EXCEPT ![x].v = 0]
            /\ consumed' = consumed \cup {x}
            /\ hollow' = hollow \cup {x}
            /\ ub' = ~exp[x].vLive
       ELSE /\ ret' = [op |-> "release", obj |-> x, before |-> exp[x],
                       outcome |-> "terminated", v |-> 0, e |-> exp[x].e]
            /\ UNCHANGED << exp, consumed, hollow, ub >>
    /\ xfer' = NoTransfer
    /\ UNCHANGED << buildVars, errVars, domVars, pathVars >>

\* Variant: an error() && that copies the Error and leaves it in place.
ErrorTakeCopies(x) ==
    /\ Running
    /\ exp[x].alive
    /\ ret' = [op |-> "error&&", obj |-> x, before |-> exp[x],
               outcome |-> "returned", v |-> 0,
               e |-> IF has_error(exp[x]) THEN exp[x].e ELSE Success]
    /\ hollow' = IF has_error(exp[x]) THEN hollow \cup {x} ELSE hollow
    /\ xfer' = NoTransfer
    /\ UNCHANGED << exp, ub, consumed, buildVars, errVars, domVars, pathVars >>

\* std::move(x).error(): if(has_error()) return std::move(e_);
\* return Error::success();
ErrorTake(x) ==
    /\ Running
    /\ exp[x].alive
    /\ \E g \in GarbageIf(has_error(exp[x]) /\ ~exp[x].eLive) :
         ret' = [op |-> "error&&", obj |-> x, before |-> exp[x],
                 outcome |-> "returned", v |-> 0,
                 e |-> IF ~has_error(exp[x]) THEN Success
                       ELSE IF exp[x].eLive THEN exp[x].e ELSE g.e]
    /\ exp' = IF has_error(exp[x]) /\ exp[x].eLive
              THEN [exp EXCEPT ![x].e = Success]
              ELSE exp
    /\ ub' = (has_error(exp[x]) /\ ~exp[x].eLive)
    /\ hollow' = IF has_error(exp[x]) THEN hollow \cup {x} ELSE hollow
    /\ xfer' = NoTransfer
    /\ UNCHANGED << consumed, buildVars, errVars, domVars, pathVars >>

\* x.error() const&: if(has_error()) return e_; return Error::success();
ErrorConstRef(x) ==
    /\ Running
    /\ exp[x].alive
    /\ \E g \in GarbageIf(has_error(exp[x]) /\ ~exp[x].eLive) :
         ret' = [op |-> "error", obj |-> x, before |-> exp[x],
                 outcome |-> "returned", v |-> 0,
                 e |-> IF ~has_error(exp[x]) THEN Success
                       ELSE IF exp[x].eLive THEN exp[x].e ELSE g.e]
    /\ ub' = (has_error(exp[x]) /\ ~exp[x].eLive)
    /\ xfer' = NoTransfer
    /\ UNCHANGED << exp, consumed, hollow, buildVars, errVars, domVars, pathVars >>

\* ---------------------------------------------------------- Error objects
ErrNames == {"e", "f"}

\* Texts and call sites an Error is constructed with.
Reasons == {"r1", "r2"}
Locs == {"L1", "L2"}

\* Error(): empty message_ and reason_, default source_location.
DefaultError ==
    [message |-> << >>, reason |-> << >>, loc |-> "L0"]

\* Error::success(): return Error();
ErrorSuccess ==
    DefaultError

\* Error(std::string reason, source_location loc): the message is the text
\* with the source location appended.
ErrorFromReason(reason, loc) ==
    [message |-> << reason, loc >>, reason |-> << reason >>, loc |-> loc]

\* Error(std::vector<Error> const& errors, source_location loc)
ErrorFromVector(errors, loc) ==
    [message |-> JoinMessages(errors), reason |-> JoinMessages(errors),
     loc |-> loc]

\* What Error(Error&&) and operator=(Error&&) leave in the source: the two
\* strings are moved out (left empty), the source_location is copied.
MovedFromError(err) ==
    [message |-> << >>, reason |-> << >>, loc |-> err.loc]

\* Error::operator bool(): return failed();
ErrorBool(err) ==
    failed(err)

\* An equality that compares every field.
ErrorEqualsAllFields(a, b) ==
    a = b

\* Error::operator==: return message_ == rhs.message_;
ErrorEquals(a, b) ==
    a.message = b.message

\* std::hash<std::string_view>: a function of the characters alone; here
\* the length of the text modulo two, so distinct texts may collide.
HashStringView(message) ==
    Len(message) % 2

\* std::hash<Error>: std::hash<std::string_view>()(err.message())
HashError(err) ==
    HashStringView(err.message)

\* A swap that exchanges reason_ and loc_ and leaves message_ in place.
ErrorSwapKeepsMessage(a, b) ==
    << [message |-> a.message, reason |-> b.reason, loc |-> b.loc],
       [message |-> b.message, reason |-> a.reason, loc |-> a.loc] >>

\* Error::swap: swap(message_), swap(reason_), swap(loc_). The result is
\* << this, rhs >>.
ErrorSwap(a, b) ==
    << [message |-> b.message, reason |-> b.reason, loc |-> b.loc],
       [message |-> a.message, reason |-> a.reason, loc |-> a.loc] >>

NoErrCall ==
    [op |-> "none", obj |-> "none", other |-> "none", outcome |-> "none",
     list |-> << >>, e |-> DefaultError, eq |-> FALSE, h1 |-> 0, h2 |-> 0]

\* No Error object has been given a text.
ErrorIdle ==
    /\ errObj = [n \in ErrNames |-> DefaultError]
    /\ holdsFailure = [n \in ErrNames |-> FALSE]
    /\ errList = << >>
    /\ eret = NoErrCall

\* n = Error(reason, loc)
ErrConstruct(n, reason, loc) ==
    /\ errObj' = [errObj EXCEPT ![n] = ErrorFromReason(reason, loc)]
    /\ holdsFailure' = [holdsFailure EXCEPT ![n] = TRUE]
    /\ eret' = NoErrCall
    /\ UNCHANGED << errList, buildVars, expVars, domVars, pathVars >>

\* n = Error::success()
ErrSuccess(n) ==
    /\ errObj' = [errObj EXCEPT ![n] = ErrorSuccess]
    /\ holdsFailure' = [holdsFailure EXCEPT ![n] = FALSE]
    /\ eret' = NoErrCall
    /\ UNCHANGED << errList, buildVars, expVars, domVars, pathVars >>

\* n = m (copy assignment)
ErrCopy(n, m) ==
    /\ n # m
    /\ errObj' = [errObj EXCEPT ![n] = errObj[m]]
    /\ holdsFailure' = [holdsFailure EXCEPT ![n] = holdsFailure[m]]
    /\ eret' = NoErrCall
    /\ UNCHANGED << errList, buildVars, expVars, domVars, pathVars >>

\* n = std::move(m)
ErrMoveAssign(n, m) ==
    /\ n # m
    /\ errObj' = [errObj EXCEPT ![n] = errObj[m],
                                ![m] = MovedFromError(errObj[m])]
    /\ holdsFailure' = [holdsFailure EXCEPT ![n] = holdsFailure[m],
                                            ![m] = FALSE]
    /\ eret' = NoErrCall
    /\ UNCHANGED << errList, buildVars, expVars, domVars, pathVars >>

\* n.swap(m)
ErrSwap(n, m) ==
    /\ n # m
    /\ LET s == ErrorSwap(errObj[n], errObj[m])
       IN  errObj' = [errObj EXCEPT ![n] = s[1], ![m] = s[2]]
    /\ holdsFailure' = [holdsFailure EXCEPT ![n] = holdsFailure[m],
                                            ![m] = holdsFailure[n]]
    /\ eret' = NoErrCall
    /\ UNCHANGED << errList, buildVars, expVars, domVars, pathVars >>

\* errors.push_back(n)
ErrPush(n) ==
    /\ Len(errList) < MaxList
    /\ errList' = Append(errList, errObj[n])
    /\ eret' = NoErrCall
    /\ UNCHANGED << errObj, holdsFailure, buildVars, expVars, domVars, pathVars >>

\* An aggregation that keeps the first Error of the list only.
ErrAggregateFirstOnly(loc) ==
    /\ eret' = [NoErrCall EXCEPT !.op = "aggregate", !.list = errList,
                                 !.outcome = "returned",
                                 !.e = IF errList = << >> THEN ErrorSuccess
                                       ELSE Head(errList)]
    /\ errList' = << >>
    /\ UNCHANGED << errObj, holdsFailure, buildVars, expVars, domVars, pathVars >>

\* Error(errors, loc), as MultiFileBuilder::build makes it from the list
\* TaskGroup::wait returned.
ErrAggregate(loc) ==
    /\ eret' = [NoErrCall EXCEPT !.op = "aggregate", !.list = errList,
                                 !.outcome = "returned",
                                 !.e = ErrorFromVector(errList, loc)]
    /\ errList' = << >>
    /\ UNCHANGED << errObj, holdsFailure, buildVars, expVars, domVars, pathVars >>

\* A maybeThrow that throws whatever the Error holds.
ErrMaybeThrowAlways(n, form) ==
    /\ eret' = [NoErrCall EXCEPT !.op = "maybeThrow", !.obj = n,
                                 !.other = form, !.outcome = "thrown",
                                 !.e = errObj[n]]
    /\ UNCHANGED << errObj, holdsFailure, errList, buildVars, expVars,
                    domVars, pathVars >>

\* n.maybeThrow(), form "const&" or "&&": if(! failed()) return; Throw();
\* In both forms Throw() is called on *this, an lvalue: Exception(*this).
ErrMaybeThrow(n, form) ==
    /\ IF ~failed(errObj[n])
       THEN eret' = [NoErrCall EXCEPT !.op = "maybeThrow", !.obj = n,
                                      !.other = form, !.outcome = "returned"]
       ELSE \E out \in ThrowOutcomes(errObj[n]) :
              eret' = [NoErrCall EXCEPT !.op = "maybeThrow", !.obj = n,
                                        !.other = form, !.outcome = out,
                                        !.e = errObj[n]]
    /\ UNCHANGED << errObj, holdsFailure, errList, buildVars, expVars,
                    domVars, pathVars >>

\* n == m, std::hash<Error>()(n), std::hash<Error>()(m)
ErrCompare(n, m) ==
    /\ eret' = [NoErrCall EXCEPT !.op = "compare", !.obj = n, !.other = m,
                                 !.outcome = "returned",
                                 !.eq = ErrorEquals(errObj[n], errObj[m]),
                                 !.h1 = HashError(errObj[n]),
                                 !.h2 = HashError(errObj[m])]
    /\ UNCHANGED << errObj, holdsFailure, errList, buildVars, expVars,
                    domVars, pathVars >>

\* --------------------------------------------------------------- dom::Value
DomNames == {"x", "y"}

\* Strings of up to MaxStr characters.
Strings == UNION {[1..n -> {"a"}] : n \in 0..MaxStr}

\* A dom::Object: whether its Impl overrides empty() and what the override
\* reports.
Objects == {[overrides |-> FALSE, reports |-> FALSE],
            [overrides |-> TRUE, reports |-> FALSE],
            [overrides |-> TRUE, reports |-> TRUE]}

NoObjectImpl ==
    [overrides |-> FALSE, reports |-> FALSE]

\* Object::Impl::empty(): "default to false", unless overridden.
ObjectEmpty(obj) ==
    IF obj.overrides THEN obj.reports ELSE FALSE

\* Array::length()
ArrayLength(arr) ==
    arr

\* The fields of a dom::Value: kind_ and the union member it selects.
MakeValue(how, k, n, s, arr, obj) ==
    [how |-> how, kind_ |-> k, number_ |-> n, string_ |-> s, array_ |-> arr,
     object_ |-> obj]

\* Value(): kind_(Kind::Null)
ValueDefault ==
    MakeValue("default", "Null", 0, << >>, 0, NoObjectImpl)

\* Value(std::nullptr_t): kind_(Kind::Null)
ValueNullptr ==
    MakeValue("nullptr", "Null", 0, << >>, 0, NoObjectImpl)

\* Value(bool b): kind_(Kind::Boolean), number_(b)
ValueBool(b) ==
    MakeValue("bool", "Boolean", IF b THEN 1 ELSE 0, << >>, 0, NoObjectImpl)

\* Value(integer i): kind_(Kind::Integer), number_(i)
ValueInteger(i) ==
    MakeValue("integer", "Integer", i, << >>, 0, NoObjectImpl)

\* Value(char const*), Value(std::string_view), Value(std::string):
\* kind_(Kind::String), string_(s)
ValueString(how, s) ==
    MakeValue(how, "String", 0, s, 0, NoObjectImpl)

\* Value(Array arr): kind_(Kind::Array), array_(std::move(arr))
ValueArray(arr) ==
    MakeValue("array", "Array", 0, << >>, arr, NoObjectImpl)

\* Value(Object obj): kind_(Kind::Object), object_(std::move(obj))
ValueObject(obj) ==
    MakeValue("object", "Object", 0, << >>, 0, obj)

\* A truthiness that takes negative integers for false.
isTruthyPositive(value) ==
    CASE value.kind_ = "Object" -> ObjectEmpty(value.object_)
      [] value.kind_ = "Array" -> ArrayLength(value.array_) > 0
      [] value.kind_ = "String" -> Len(value.string_) > 0
      [] value.kind_ \in {"Integer", "Boolean"} -> value.number_ > 0
      [] value.kind_ = "Null" -> FALSE

\* Value::isTruthy()
isTruthy(value) ==
    CASE value.kind_ = "Object" -> ObjectEmpty(value.object_)
      [] value.kind_ = "Array" -> ArrayLength(value.array_) > 0
      [] value.kind_ = "String" -> Len(value.string_) > 0
      [] value.kind_ \in {"Integer", "Boolean"} -> value.number_ # 0
      [] value.kind_ = "Null" -> FALSE

NotAsked ==
    [called |-> FALSE, obj |-> "none", result |-> FALSE]

\* The union member a constructor's initialiser list constructs, if it has
\* a destructor to run: array_, object_ or string_; number_ is trivial.
ConstructedMembers(value) ==
    CASE value.how = "array" -> {"array_"}
      [] value.how = "object" -> {"object_"}
      [] value.how \in {"char const*", "string_view", "string"} -> {"string_"}
      [] value.how \in {"default", "nullptr", "bool", "integer"} -> {}

\* Variant: a destructor that takes String for trivially destructible.
DestroyedMembersSkipsString(value) ==
    CASE value.kind_ = "Object" -> {"object_"}
      [] value.kind_ = "Array" -> {"array_"}
      [] value.kind_ \in {"String", "Integer", "Boolean", "Null"} -> {}

\* Value::~Value(): the switch on kind_.
DestroyedMembers(value) ==
    CASE value.kind_ = "Object" -> {"object_"}
      [] value.kind_ = "Array" -> {"array_"}
      [] value.kind_ = "String" -> {"string_"}
      [] value.kind_ \in {"Integer", "Boolean", "Null"} -> {}

\* Every dom::Value is default-constructed and isTruthy() was not called.
DomIdle ==
    /\ val = [n \in DomNames |-> ValueDefault]
    /\ truthy = NotAsked
    /\ life = [n \in DomNames |->
                 [alive |-> TRUE, members |-> {}, destroyed |-> {}]]
    /\ domFault = "none"

\* The Values a constructor call can produce.
Constructible ==
    {ValueDefault, ValueNullptr}
        \cup {ValueBool(b) : b \in BOOLEAN}
        \cup {ValueInteger(i) : i \in (0 - MaxInt)..MaxInt}
        \cup {ValueString(how, s) :
                 how \in {"char const*", "string_view", "string"},
                 s \in Strings}
        \cup {ValueArray(n) : n \in 0..MaxArr}
        \cup {ValueObject(obj) : obj \in Objects}

\* Value n(...), where no Value named n is alive.
DomConstruct(n, value) ==
    /\ ~life[n].alive
    /\ val' = [val EXCEPT ![n] = value]
    /\ life' = [life EXCEPT ![n] = [alive |-> TRUE,
                                    members |-> ConstructedMembers(value),
                                    destroyed |-> {}]]
    /\ truthy' = NotAsked
    /\ UNCHANGED << domFault, buildVars, expVars, errVars, pathVars >>

\* n.isTruthy()
DomIsTruthy(n) ==
    /\ life[n].alive
    /\ truthy' = [called |-> TRUE, obj |-> n, result |-> isTruthy(val[n])]
    /\ UNCHANGED << val, life, domFault, buildVars, expVars, errVars, pathVars >>

\* n goes out of scope: ~Value()
DomDestroy(n) ==
    /\ life[n].alive
    /\ LET d == DestroyedMembers(val[n])
       IN  /\ life' = [life EXCEPT ![n] = [alive |-> FALSE, members |-> {},
                                           destroyed |-> d]]
           /\ domFault' = IF ~(d \subseteq life[n].members)
                           THEN "destroyed a member that is not constructed"
                           ELSE IF life[n].members # d
                           THEN "leaked a constructed member"
                           ELSE domFault
    /\ truthy' = NotAsked
    /\ UNCHANGED << val, buildVars, expVars, errVars, pathVars >>

\* ------------------------------------------------------------------ paths
Styles == {"posix", "windows"}

\* Characters of a path: a letter and the two slashes.
Chars == {"a", "/", "\\"}

Paths == UNION {[1..n -> Chars] : n \in 1..MaxPath}

\* llvm::sys::path::is_separator(c) for the native style: '/' always, and
\* '\\' on Windows.
is_separator(c, style) ==
    c = "/" \/ (style = "windows" /\ c = "\\")

\* llvm::sys::path::get_separator() for the native style.
get_separator(style) ==
    IF style = "windows" THEN << "\\" >> ELSE << "/" >>

\* s.back()
Back(s) ==
    s[Len(s)]

\* Variant: a separator is appended whatever the path ends with.
makeDirsyAlways(s, style) ==
    s \o get_separator(style)

\* makeDirsy(s): if(! is_separator(s.back())) s.insert(s.end(), sep)
makeDirsy(s, style) ==
    IF ~is_separator(Back(s), style)
    THEN s \o get_separator(style)
    ELSE s

\* No path is in use.
PathIdle ==
    dirsy = [style |-> "posix", hist |-> << >>]

\* SmallString s(p), natively in the given style.
PathChoose(style, p) ==
    /\ dirsy.hist = << >>
    /\ dirsy' = [style |-> style, hist |-> << p >>]
    /\ UNCHANGED << buildVars, expVars, errVars, domVars >>

\* makeDirsy(s)
PathMakeDirsy ==
    /\ Len(dirsy.hist) \in 1..MaxCalls
    /\ dirsy' = [dirsy EXCEPT !.hist =
                    Append(@, makeDirsy(Back(dirsy.hist), dirsy.style))]
    /\ UNCHANGED << buildVars, expVars, errVars, domVars >>

\* ------------------------------------------------------------- specification
\* No Expected object is in use.
ExpectedIdle ==
    /\ exp = [n \in Names |-> NoObject]
    /\ ub = FALSE
    /\ ret = NoCall
    /\ consumed = {}
    /\ xfer = NoTransfer
    /\ hollow = {}

InitBuild(maxn, modes) ==
    /\ nsyms \in 0..maxn
    /\ kind \in [1..nsyms -> Kinds]
    /\ parent \in {f \in [1..nsyms -> 0..maxn] :
                     \A s \in 1..nsyms :
                        /\ f[s] < s
                        /\ f[s] = 0 \/ kind[f[s]] \in {"namespace", "record"}}
    /\ mode \in modes
    /\ ioFault = [s \in 1..nsyms |-> "unknown"]
    /\ shortCount = -1
    /\ pc = "start"
    /\ run = 1
    /\ stack = << >>
    /\ visitOrder = << >>
    /\ pending = {}
    /\ completed = {}
    /\ running = {}
    /\ fs = [p \in AllPaths |-> NoFile]
    /\ console = {}
    /\ taskErrors = << >>
    /\ stream = << >>
    /\ streamBad = FALSE
    /\ nSerialized = 0
    /\ result = NoResult
    /\ fsFirst = [p \in AllPaths |-> NoFile]
    /\ resultFirst = NoResult
    /\ visitOrderFirst = << >>
    /\ ExpectedIdle
    /\ ErrorIdle
    /\ DomIdle
    /\ PathIdle

\* One call of build (multi-artifact) or of buildOne (single stream) on a
\* corpus of at most MaxSyms symbols, into an empty directory.
Init ==
    InitBuild(MaxSyms, {"multi", "single"})

Next ==
    \/ BuildStart
    \/ MultiVisit
    \/ \E s \in Symbols : TaskOpen(s)
    \/ \E s \in Symbols : TaskWrite(s)
    \/ MultiBuildWait
    \/ SingleVisit
    \/ SingleBuildReturn

Spec ==
    Init /\ [][Next]_vars

\* The traversal thread and the pool threads all keep running.
FairSpec ==
    /\ InitBuild(MaxSymsSmall, {"multi", "single"})
    /\ [][Next]_vars
    /\ WF_vars(BuildStart \/ MultiVisit \/ MultiBuildWait
                 \/ SingleVisit \/ SingleBuildReturn)
    /\ \A s \in 1..MaxSyms : WF_vars(TaskOpen(s)) /\ WF_vars(TaskWrite(s))

\* build called twice on the same corpus and output directory.
InitTwice ==
    InitBuild(MaxSymsSmall, {"multi"})

NextTwice ==
    \/ BuildStart
    \/ MultiVisit
    \/ \E s \in Symbols : TaskOpen(s)
    \/ \E s \in Symbols : TaskWrite(s)
    \/ MultiBuildWait
    \/ Rebuild

SpecTwice ==
    InitTwice /\ [][NextTwice]_vars

\* build and then buildOne called on the same corpus.
InitBoth ==
    InitBuild(MaxSymsSmall, {"multi"})

NextBoth ==
    \/ BuildStart
    \/ MultiVisit
    \/ \E s \in Symbols : TaskOpen(s)
    \/ \E s \in Symbols : TaskWrite(s)
    \/ MultiBuildWait
    \/ BuildOneAfterBuild
    \/ SingleVisit
    \/ SingleBuildReturn

SpecBoth ==
    InitBoth /\ [][NextBoth]_vars

\* Programs that construct, move, assign, swap and destroy Expected<T> objects.
InitExpected ==
    /\ InitBuild(0, {"multi"})

NextExpected ==
    \/ \E x \in Names, u \in Values : ConstructValue(x, u)
    \/ \E x \in Names, err \in Errors : ConstructError(x, err)
    \/ \E x, y \in Names : MoveConstruct(x, y)
    \/ \E x, y \in Names : MoveAssign(x, y)
    \/ \E x, y \in Names : ConvertAssign(x, y)
    \/ \E x, y \in Names : Swap(x, y)
    \/ \E x \in Names : Destroy(x)
    \/ \E x \in Names : Value(x)
    \/ \E x \in Names : Release(x)
    \/ \E x \in Names : ErrorTake(x)
    \/ \E x \in Names : ErrorConstRef(x)

ExpectedSpec ==
    InitExpected /\ [][NextExpected]_vars

\* Programs that construct, copy, move, swap, collect, aggregate, compare
\* and throw Error objects.
InitError ==
    /\ InitBuild(0, {"multi"})

NextError ==
    \/ \E n \in ErrNames, reason \in Reasons, loc \in Locs :
          ErrConstruct(n, reason, loc)
    \/ \E n \in ErrNames : ErrSuccess(n)
    \/ \E n, m \in ErrNames : ErrCopy(n, m)
    \/ \E n, m \in ErrNames : ErrMoveAssign(n, m)
    \/ \E n, m \in ErrNames : ErrSwap(n, m)
    \/ \E n \in ErrNames : ErrPush(n)
    \/ \E loc \in Locs : ErrAggregate(loc)
    \/ \E n \in ErrNames, form \in {"const&", "&&"} : ErrMaybeThrow(n, form)
    \/ \E n, m \in ErrNames : ErrCompare(n, m)

ErrorSpec ==
    InitError /\ [][NextError]_vars

\* Programs that construct dom::Values and ask for their truthiness.
InitDom ==
    /\ InitBuild(0, {"multi"})

NextDom ==
    \/ \E n \in DomNames, value \in Constructible : DomConstruct(n, value)
    \/ \E n \in DomNames : DomIsTruthy(n)
    \/ \E n \in DomNames : DomDestroy(n)

DomSpec ==
    InitDom /\ [][NextDom]_vars

\* Programs that apply makeDirsy to a path, once or repeatedly.
InitPath ==
    /\ InitBuild(0, {"multi"})

NextPath ==
    \/ \E style \in Styles, p \in Paths : PathChoose(style, p)
    \/ PathMakeDirsy

PathSpec ==
    InitPath /\ [][NextPath]_vars

\* ------------------------------------------------------------- properties
Visited ==
    {visitOrder[i] : i \in DOMAIN visitOrder}

VisitCount(s) ==
    Cardinality({i \in DOMAIN visitOrder : visitOrder[i] = s})

\* The file holding exactly the encoding of s.
Artifact(s) ==
    [exists |-> TRUE, bytes |-> writeBitcode(s)]

IoFailed(s) ==
    ioFault[s] \in {"open", "write"}

\* The message names the path.
References(message, path) ==
    \E i \in DOMAIN message : message[i] = path

RECURSIVE IsDescendant(_, _)
IsDescendant(s, c) ==
    /\ s # 0
    /\ parent[s] = c \/ IsDescendant(parent[s], c)

RECURSIVE ConcatBitcode(_)
ConcatBitcode(order) ==
    IF order = << >> THEN << >>
    ELSE writeBitcode(Head(order)) \o ConcatBitcode(Tail(order))

\* order is a depth-first pre-order: no symbol twice, a symbol's container
\* (other than the root) earlier, siblings in corpus order, and the visited
\* descendants of a symbol directly after it.
IsPreOrder(order) ==
    /\ \A i, j \in DOMAIN order : order[i] = order[j] => i = j
    /\ \A i \in DOMAIN order :
          parent[order[i]] # 0 =>
             \E j \in 1..(i - 1) : order[j] = parent[order[i]]
    /\ \A i, j \in DOMAIN order :
          (i < j /\ parent[order[i]] = parent[order[j]]) => order[i] < order[j]
    /\ \A i, j \in DOMAIN order :
          (i < j /\ IsDescendant(order[j], order[i])) =>
             \A k \in (i + 1)..j : IsDescendant(order[k], order[i])

\* C1: when the tasks of M >= 1 visited symbols fail their I/O, build
\* returns a failed Error whose message references every failing path.
C1_FailureIsReturned ==
    (mode = "multi" /\ pc = "done" /\ \E s \in Visited : IoFailed(s)) =>
        /\ failed(result)
        /\ \A s \in Visited : IoFailed(s) => References(result.message, FilePath(s))

\* C2: every visited symbol's task runs whatever fails: when build returns,
\* each task has completed, each symbol without an I/O fault has its whole
\* artifact, each symbol whose path cannot be opened has none, and the
\* number of whole artifacts is K - M (K visited symbols, M of them faulty).
C2_EveryTaskRuns ==
    (mode = "multi" /\ pc = "done") =>
        /\ \A s \in Visited : s \in completed
        /\ \A s \in Visited :
              /\ ioFault[s] = "none" => fs[FilePath(s)] = Artifact(s)
              /\ ioFault[s] = "open" => fs[FilePath(s)] = NoFile
        /\ Cardinality({s \in Visited : fs[FilePath(s)] = Artifact(s)})
             = Len(visitOrder) - Cardinality({s \in Visited : IoFailed(s)})
        /\ Cardinality({q \in AllPaths : fs[q] # NoFile})
             = Len(visitOrder) - Cardinality({s \in Visited : ioFault[s] = "open"})

\* A record whose path cannot be opened, and a member of it that was written.
C2_Witness ==
    /\ mode = "multi"
    /\ pc = "done"
    /\ \E r, m \in Visited :
          /\ parent[m] = r
          /\ ioFault[r] = "open"
          /\ fs[FilePath(m)] = Artifact(m)

\* C3: when the traversal is over, every symbol reachable from the root
\* through container membership has been visited exactly once.
C3_VisitsEveryReachableOnce ==
    pc = "done" => \A s \in Symbols : VisitCount(s) = 1

\* C4: build returns only after every task posted during the traversal has
\* completed, and the Error it returns is made from the errors of that join.
C4_ReturnsAfterJoin ==
    (mode = "multi" /\ result # NoResult) =>
        /\ pc = "done"
        /\ Cardinality(completed) = Len(visitOrder)
        /\ completed = Visited
        /\ pending = {}
        /\ running = {}
        /\ result = IF taskErrors # << >> THEN ErrorFromList(taskErrors) ELSE Success

C4_Witness ==
    /\ mode = "multi"
    /\ pc = "done"
    /\ Cardinality(completed) >= 2

\* C5: buildOne stops at the first failed write: no later symbol is
\* encoded or written, and the Error returned is failed.
C5_StopsAtFirstFailure ==
    (mode = "single" /\ pc = "done" /\ streamBad) =>
        /\ failed(result)
        /\ ioFault[visitOrder[Len(visitOrder)]] = "write"
        /\ nSerialized = Len(visitOrder)

\* C6: without a write failure buildOne leaves in the stream the encodings
\* of the visited symbols, back to back in depth-first pre-order, written
\* by the calling thread alone, and returns success.
C6_StreamIsPreOrderConcat ==
    (mode = "single" /\ pc = "done" /\ ~streamBad) =>
        /\ stream = ConcatBitcode(visitOrder)
        /\ IsPreOrder(visitOrder)
        /\ result = Success
        /\ pending = {} /\ running = {} /\ completed = {}
        /\ \A q \in AllPaths : fs[q] = NoFile

\* A record with a member, visited before the record's later sibling.
C6_Witness ==
    /\ mode = "single"
    /\ pc = "done"
    /\ ~streamBad
    /\ visitOrder = << 1, 3, 2 >>

\* C7: no two tasks of one build target the same path: the paths of two
\* distinct visited symbols differ, so no two running tasks hold the same
\* file open, and every file created is outputPath/<safe name>.bc of a
\* visited symbol.
C7_DistinctPaths ==
    /\ \A a, b \in Visited : a # b => FilePath(a) # FilePath(b)
    /\ \A a, b \in running : a # b => FilePath(a) # FilePath(b)
    /\ \A q \in AllPaths :
          fs[q].exists =>
             \E a \in Visited :
                q = outputPath \o << "/" >> \o SafeName(a) \o << ".bc" >>

C7_Witness ==
    /\ mode = "multi"
    /\ Cardinality(running) = 2

\* C8: after build has run a second time on the same corpus and directory
\* the files are those the first run left, and the second run returns
\* success when the first did.
C8_SecondRunIdempotent ==
    (run = 2 /\ pc = "done") =>
        /\ fs = fsFirst
        /\ ~failed(resultFirst) => ~failed(result)

\* The second run has returned and a whole artifact is in the directory.
C8_Witness ==
    /\ run = 2
    /\ pc = "done"
    /\ \E s \in Visited : fs[FilePath(s)] = Artifact(s)

\* C9: build and buildOne terminate: every posted task completes, the call
\* returns, and on the empty corpus nothing is posted or written and the
\* result is success.
C9_Total ==
    <>(/\ pc = "done"
       /\ pending = {}
       /\ running = {}
       /\ mode = "multi" => completed = Visited
       /\ nsyms = 0 =>
            /\ visitOrder = << >>
            /\ completed = {}
            /\ stream = << >>
            /\ \A q \in AllPaths : fs[q] = NoFile
            /\ result = Success)

C9_Witness ==
    /\ pc = "done"
    /\ nsyms = 0
    /\ result = Success

\* C10: an Expected<T> always holds exactly one of {value, Error}:
\* has_value() is the negation of has_error() and equals operator bool, the
\* union member the discriminant names is live and the other is not, and no
\* operation touches a member that is not live.
C10_ExactlyOneLive ==
    /\ ~ub
    /\ \A n \in Names :
          exp[n].alive =>
             /\ has_value(exp[n]) = ~has_error(exp[n])
             /\ OperatorBool(exp[n]) = has_value(exp[n])
             /\ has_error(exp[n]) => (exp[n].eLive /\ ~exp[n].vLive)
             /\ has_value(exp[n]) => (exp[n].vLive /\ ~exp[n].eLive)

\* C11: release() consumes the value once: a value() on an Expected whose
\* value release() has moved out, with no assignment in between, raises
\* instead of returning a value.
C11_ReleaseConsumes ==
    (ret.op = "value" /\ ret.obj \in consumed) => ret.outcome = "thrown"

Contains(message, sub) ==
    \E i \in 1..(Len(message) - Len(sub) + 1) :
        SubSeq(message, i, i + Len(sub) - 1) = sub

\* C13: Error(vector<Error>) is success iff the list is empty or every
\* element is success; otherwise it is failed and its message contains the
\* message of every failed element.
C13_Aggregation ==
    eret.op = "aggregate" =>
        /\ ~failed(eret.e) <=>
              \A i \in DOMAIN eret.list : ~failed(eret.list[i])
        /\ \A i \in DOMAIN eret.list :
              failed(eret.list[i]) =>
                 Contains(eret.e.message, eret.list[i].message)

\* A list of two different failures has been aggregated.
C13_Witness ==
    /\ eret.op = "aggregate"
    /\ Len(eret.list) = 2
    /\ failed(eret.list[1])
    /\ failed(eret.list[2])
    /\ eret.list[1].message # eret.list[2].message

\* C14: failed() and the boolean conversion of an Error are true iff its
\* message is not empty; a default-constructed Error and Error::success()
\* are not failed; an Error that was given a text, or received one by copy,
\* move assignment or swap, is failed, and one that received a success is
\* not.
C14_FailedIffMessage ==
    /\ ~failed(DefaultError)
    /\ ~failed(ErrorSuccess)
    /\ \A n \in ErrNames :
          /\ failed(errObj[n]) <=> (errObj[n].message # << >>)
          /\ ErrorBool(errObj[n]) <=> failed(errObj[n])
          /\ failed(errObj[n]) <=> holdsFailure[n]

\* One Error received a failure while the other was moved from.
C14_Witness ==
    \E n, m \in ErrNames :
        /\ holdsFailure[n]
        /\ errObj[m] = MovedFromError(errObj[n])
        /\ errObj[m] # DefaultError

\* C15: maybeThrow, in both forms, returns normally on a success Error and
\* on a failed Error raises an Exception whose error() equals the Error.
C15_MaybeThrow ==
    eret.op = "maybeThrow" =>
        /\ ~failed(errObj[eret.obj]) => eret.outcome = "returned"
        /\ failed(errObj[eret.obj]) =>
              /\ eret.outcome = "thrown"
              /\ ErrorEquals(eret.e, errObj[eret.obj])

\* The && form has raised a failed Error.
C15_Witness ==
    /\ eret.op = "maybeThrow"
    /\ eret.other = "&&"
    /\ eret.outcome = "thrown"
    /\ failed(eret.e)

\* C16: isTruthy() on an Object is false exactly when the Object's
\* implementation reports empty; an Object that keeps the default
\* Impl::empty() is truthy.
C16_ObjectTruthy ==
    (truthy.called /\ val[truthy.obj].kind_ = "Object") =>
        /\ truthy.result <=> ~ObjectEmpty(val[truthy.obj].object_)
        /\ ~val[truthy.obj].object_.overrides => truthy.result

\* C17: isTruthy() is true for a non-empty String, an Array of length > 0,
\* Boolean true and a non-zero Integer; it is false for Null, the empty
\* String, an Array of length 0, Boolean false and Integer zero.
C17_NonObjectTruthy ==
    (truthy.called /\ val[truthy.obj].kind_ # "Object") =>
        LET value == val[truthy.obj]
        IN  truthy.result <=>
               \/ value.kind_ = "String" /\ value.string_ # << >>
               \/ value.kind_ = "Array" /\ value.array_ >= 1
               \/ value = ValueBool(TRUE)
               \/ value.kind_ = "Integer" /\ value # ValueInteger(0)

\* isTruthy() has answered true for a negative Integer.
C17_Witness ==
    /\ truthy.called
    /\ truthy.result
    /\ val[truthy.obj].kind_ = "Integer"
    /\ val[truthy.obj].number_ < 0

\* The Errors in play: the named ones, those collected, and success.
ErrorsInPlay ==
    {errObj[n] : n \in ErrNames} \cup {errList[i] : i \in DOMAIN errList}
        \cup {ErrorSuccess}

\* C18: two Errors are equal iff their messages are equal, whatever their
\* reasons and locations; equality is reflexive, symmetric and transitive,
\* any two success Errors are equal, and equal Errors hash alike.
C18_Equality ==
    /\ \A a, b \in ErrorsInPlay :
          /\ ErrorEquals(a, b) <=> (a.message = b.message)
          /\ ErrorEquals(a, a)
          /\ ErrorEquals(a, b) => ErrorEquals(b, a)
          /\ (~failed(a) /\ ~failed(b)) => ErrorEquals(a, b)
          /\ ErrorEquals(a, b) => HashError(a) = HashError(b)
          /\ \A c \in ErrorsInPlay :
                (ErrorEquals(a, b) /\ ErrorEquals(b, c)) => ErrorEquals(a, c)
    /\ eret.op = "compare" =>
          /\ eret.eq <=> (errObj[eret.obj].message = errObj[eret.other].message)
          /\ eret.eq => eret.h1 = eret.h2

\* Two Errors that differ in their locations have compared equal.
C18_Witness ==
    /\ eret.op = "compare"
    /\ eret.eq
    /\ errObj[eret.obj].loc # errObj[eret.other].loc

\* C19: in multi-artifact mode the tasks are posted in depth-first
\* pre-order: a record's task before its members' tasks, members in corpus
\* order; every task posted is that of a visited symbol, and a task waits,
\* runs or has completed whatever the state of the tasks posted before it.
C19_SubmissionOrder ==
    mode = "multi" =>
        /\ IsPreOrder(visitOrder)
        /\ pending \cup running \cup completed = Visited
        /\ pending \cap running = {}
        /\ (pending \cup running) \cap completed = {}

\* A member's task has completed while the task of its record, posted
\* earlier, has not started.
C19_Witness ==
    /\ mode = "multi"
    /\ \E a \in pending, b \in completed : parent[b] = a

\* C20: a task whose open failed reports an Error tagged "open" and the
\* path, a task whose write failed reports one tagged "write" and the path,
\* and a task that reported nothing opened the file, truncating it, and
\* wrote all the encoded bytes.
C20_StepsAttributed ==
    mode = "multi" =>
        \A s \in completed :
            /\ ioFault[s] = "open" => << "open", FilePath(s) >> \in console
            /\ ioFault[s] = "write" => << "write", FilePath(s) >> \in console
            /\ (\A op \in {"open", "write"} :
                   << op, FilePath(s) >> \notin console) =>
                  fs[FilePath(s)] = Artifact(s)

\* C21: move construction and move assignment transfer the live state:
\* the target has the source's former discriminant and payload, exactly the
\* members the target had live are destroyed, the source keeps its
\* discriminant and the same member constructed, and self-move-assignment
\* leaves the object unchanged.
C21_MoveTransfers ==
    xfer.op \in {"moveConstruct", "moveAssign"} =>
        IF xfer.dst = xfer.src
        THEN /\ exp[xfer.dst] = xfer.dstBefore
             /\ xfer.destroyed = {}
             /\ ~ub
        ELSE LET d == exp[xfer.dst]
                 s == exp[xfer.src]
                 sb == xfer.srcBefore
             IN  /\ ~ub
                 /\ d.alive
                 /\ d.has_error_ = sb.has_error_
                 /\ LiveMembers(d) = LiveMembers(sb)
                 /\ d.v = sb.v
                 /\ d.e = sb.e
                 /\ xfer.destroyed = LiveMembers(xfer.dstBefore)
                 /\ s.alive
                 /\ s.has_error_ = sb.has_error_
                 /\ LiveMembers(s) = LiveMembers(sb)
                 /\ Cardinality(LiveMembers(s)) = 1

\* An Error has been move-assigned over a value.
C21_Witness ==
    /\ xfer.op = "moveAssign"
    /\ xfer.dst # xfer.src
    /\ has_value(xfer.dstBefore)
    /\ has_error(xfer.srcBefore)
    /\ failed(exp[xfer.dst].e)

\* C22: swap exchanges the complete states of its operands in all four
\* combinations: each has the other's former discriminant and payload, and
\* no member that is not live is touched.
C22_SwapExchanges ==
    xfer.op = "swap" =>
        /\ ~ub
        /\ exp[xfer.dst] = xfer.srcBefore
        /\ exp[xfer.src] = xfer.dstBefore

\* What error() const& returns for o.
ErrorOf(o) ==
    IF has_error(o) THEN o.e ELSE Success

\* C23: in every state of an Expected, has_error() is true iff error()
\* returns a failed Error, also after the Expected has been moved from or
\* its Error taken with error() &&.
C23_ErrorIffFailed ==
    ~ub =>
        \A n \in Names :
            exp[n].alive => (has_error(exp[n]) <=> failed(ErrorOf(exp[n])))

\* C23, amended: error() on an Expected holding a value returns success; on
\* one holding an Error whose payload was not moved out it returns a failed
\* Error; on one whose Error was moved out has_error() stays true and
\* error() returns an Error that is not failed. A call of error() returns
\* the stored Error, or success for a value.
C23_ErrorIffFailedUnlessMovedOut ==
    ~ub =>
        /\ \A n \in Names :
              exp[n].alive =>
                 /\ has_value(exp[n]) => ~failed(ErrorOf(exp[n]))
                 /\ (has_error(exp[n]) /\ n \notin hollow) =>
                       failed(ErrorOf(exp[n]))
                 /\ (has_error(exp[n]) /\ n \in hollow) =>
                       ~failed(ErrorOf(exp[n]))
        /\ ret.op \in {"error", "error&&"} =>
              /\ ret.e = ErrorOf(ret.before)
              /\ has_error(exp[ret.obj]) = has_error(ret.before)

\* error() && has taken the Error of an Expected, which still says
\* has_error().
C23_Witness ==
    /\ ret.op = "error&&"
    /\ failed(ret.e)
    /\ has_error(exp[ret.obj])
    /\ ret.obj \in hollow

\* C24: for one corpus the two modes visit the same symbols in the same
\* order: the symbols whose encodings buildOne appended are, in order, the
\* symbols build posted tasks for, each once.
C24_SameVisitOrder ==
    (run = 2 /\ mode = "single" /\ pc = "done") =>
        /\ visitOrder = visitOrderFirst
        /\ nSerialized = Len(visitOrderFirst)
        /\ \A i, j \in DOMAIN visitOrder : visitOrder[i] = visitOrder[j] => i = j

\* Both modes have run over a corpus with a record and a member of it.
C24_Witness ==
    /\ run = 2
    /\ mode = "single"
    /\ pc = "done"
    /\ \E i, j \in DOMAIN visitOrder :
          i < j /\ parent[visitOrder[j]] = visitOrder[i]

\* The kind each constructor is to give.
KindOfConstructor(how) ==
    CASE how \in {"default", "nullptr"} -> "Null"
      [] how = "bool" -> "Boolean"
      [] how = "integer" -> "Integer"
      [] how \in {"char const*", "string_view", "string"} -> "String"
      [] how = "array" -> "Array"
      [] how = "object" -> "Object"

\* C25: a Value's kind is the one its constructor's argument calls for as
\* long as the Value lives, and the destructor destroys exactly the payload
\* the kind names (Object, Array or String; nothing for Integer, Boolean and
\* Null): nothing is destroyed that was not constructed and nothing leaks.
C25_KindAndPayload ==
    /\ domFault = "none"
    /\ \A n \in DomNames :
          /\ life[n].alive =>
                /\ val[n].kind_ = KindOfConstructor(val[n].how)
                /\ life[n].members = DestroyedMembers(val[n])
          /\ ~life[n].alive =>
                /\ life[n].destroyed = ConstructedMembers(val[n])
                /\ life[n].destroyed \subseteq
                      (IF val[n].kind_ = "Object" THEN {"object_"}
                       ELSE IF val[n].kind_ = "Array" THEN {"array_"}
                       ELSE IF val[n].kind_ = "String" THEN {"string_"}
                       ELSE {})

\* A String and an Object have been destroyed.
C25_Witness ==
    \E n, m \in DomNames :
        /\ ~life[n].alive
        /\ ~life[m].alive
        /\ life[n].destroyed = {"string_"}
        /\ life[m].destroyed = {"object_"}

\* C26: makeDirsy on a non-empty path leaves a path that ends with a
\* separator and has the original as a prefix; it appends one separator
\* when the path did not end with one and nothing otherwise; applied twice
\* it gives what it gives applied once.
C26_MakeDirsy ==
    /\ \A i \in 2..Len(dirsy.hist) :
          LET before == dirsy.hist[i - 1]
              after == dirsy.hist[i]
          IN  /\ is_separator(Back(after), dirsy.style)
              /\ SubSeq(after, 1, Len(before)) = before
              /\ is_separator(Back(before), dirsy.style) => after = before
              /\ ~is_separator(Back(before), dirsy.style) =>
                    Len(after) = Len(before) + 1
    /\ Len(dirsy.hist) >= 3 => dirsy.hist[3] = dirsy.hist[2]

\* makeDirsy has been applied twice to a Windows path that ended in a
\* letter.
C26_Witness ==
    /\ Len(dirsy.hist) = 3
    /\ dirsy.style = "windows"
    /\ Back(dirsy.hist[1]) = "a"
    /\ Back(dirsy.hist[3]) = "\\"

=============================================================================
